---- MODULE Spec2Model ----
(***************************************************************************)
(* Breathing monitor (BreathingDetector_MLX.ino): the main process loop,   *)
(* the two button interrupt routines and the output routines.              *)
(*                                                                         *)
(* Temperatures are kept in units of 1/MEASURE_AVG degree, so that the     *)
(* mean of MEASURE_AVG whole-degree sensor readings is exact.  Times are   *)
(* whole seconds, as millis()/1000 yields them.  bpm is the exact rational *)
(* <<numerator, denominator>> of the float the code computes.              *)
(***************************************************************************)
EXTENDS Integers, Sequences, FiniteSets, TLC

(***************************************************************************)
(* Program constants (#define lines of the sketch), in degrees / seconds.  *)
(***************************************************************************)
MEASURE_AVG == 2
TEMP_THRESHOLD == 90
MIN_TEMP == 80
PATIENT_HYST == 2
EXHALE_HYST == 1
ALARM_DELAY_SEC == 7
SENSOR_FAIL_TEMP == 500
BPM_SCALE == 120
CHAR_RANGE == 256

EXHALE == TRUE
INHALE == FALSE
HIGH == TRUE
LOW == FALSE

(***************************************************************************)
(* Bounds of the model.                                                    *)
(***************************************************************************)
MaxTime == 8
MaxCalTime == 0
MaxPresses == 2
MaxAlarmPresses == 1

\* What the environment may do in one run: either the clock runs for up to
\* MaxTime seconds and the buttons are pressed, up to MaxAlarmPresses times,
\* only while the alarm is on; or the buttons are pressed at any moment, up
\* to MaxPresses times, while the clock runs for up to MaxCalTime seconds.
Budgets ==
    { [time |-> MaxTime, presses |-> MaxAlarmPresses, alarmOnly |-> TRUE],
      [time |-> MaxCalTime, presses |-> MaxPresses, alarmOnly |-> FALSE] }

\* A whole number of degrees in the model's temperature unit.
Deg(d) == d * MEASURE_AVG

\* The sensor readings of one cycle: MEASURE_AVG whole-degree readings.
Readings ==
    { <<-1, 0>>, <<78, 78>>, <<82, 82>>, <<90, 90>>, <<91, 91>>,
      <<91, 92>>, <<500, 501>> }

RECURSIVE SumSeq(_)
SumSeq(s) == IF s = <<>> THEN 0 ELSE Head(s) + SumSeq(Tail(s))

\* objT = (sum of the readings)/MEASURE_AVG, in units of 1/MEASURE_AVG degree.
Average(rd) == (Deg(SumSeq(rd))) \div MEASURE_AVG

\* C integer division, truncating toward zero.
CDiv(a, b) == IF a >= 0 THEN a \div b ELSE -((-a) \div b)

\* Mutation: the conversion rounds down instead of toward zero.
ToInt_Floor(x) == x \div MEASURE_AVG

\* (int)x of a float x, as a whole number of degrees.
ToInt(x) == CDiv(x, MEASURE_AVG)

BpmZero == <<0, 1>>

\* Mutation: the division without its guard.
BpmCalc_Unguarded(t, tPrev) == <<BPM_SCALE, t - tPrev>>

\* bpm = (1/((float)bpmTime-(float)bpmPrevTime))*120.0, guarded against a
\* zero difference.
BpmCalc(t, tPrev) ==
    IF (t - tPrev) # 0 THEN <<BPM_SCALE, t - tPrev>> ELSE BpmZero

VARIABLES
    objT, tempThreshold, minTemp, state, prevState, patient, alarm,
    thresholdSet, minimumSet, thresholdSetDisp, minimumSetDisp, sensorFail,
    stateTime, statePrevTime, bpmTime, bpmPrevTime, bpm, exhaleCtr,
    pinExhale, pinInhale, pinPatient, pinAlarm,
    serialCnt, serialRec,
    clock, crossed, pc, thrPresses, minPresses, budget,
    pre, computed, lastExhale,
    thrAsserts, minAsserts, thrCaptures, minCaptures, thrEvents, minEvents

progVars ==
    <<objT, tempThreshold, minTemp, state, prevState, patient, alarm,
      thresholdSet, minimumSet, thresholdSetDisp, minimumSetDisp, sensorFail,
      stateTime, statePrevTime, bpmTime, bpmPrevTime, bpm, exhaleCtr>>
pinVars == <<pinExhale, pinInhale, pinPatient, pinAlarm>>
serialVars == <<serialCnt, serialRec>>
pressVars == <<thrPresses, minPresses>>
envVars == <<clock, crossed, pc, pressVars, budget>>
histVars == <<pre, computed, lastExhale>>
calHist ==
    <<thrAsserts, minAsserts, thrCaptures, minCaptures, thrEvents, minEvents>>
vars == <<progVars, pinVars, serialVars, envVars, histVars, calHist>>

\* The line updateSerial() prints.
StatusRecord(p, s, a, b, t) ==
    [patient |-> p, state |-> s, alarm |-> a, bpm |-> b, objT |-> t]

\* The serial line before anything is printed in a cycle.
NoRecord == StatusRecord(FALSE, INHALE, FALSE, BpmZero, 0)

\* The state on entry to loop(), kept for the cycle (taken as the previous
\* pass ends: nothing but the clock and the button flags moves in between).
Snapshot ==
    [patient |-> patient, state |-> state, alarm |-> alarm, bpm |-> bpm,
     exhaleCtr |-> exhaleCtr, sensorFail |-> sensorFail,
     stateTime |-> stateTime, statePrevTime |-> statePrevTime,
     bpmTime |-> bpmTime, bpmPrevTime |-> bpmPrevTime,
     pinExhale |-> pinExhale, pinInhale |-> pinInhale,
     pinPatient |-> pinPatient, pinAlarm |-> pinAlarm,
     prevState |-> prevState,
     minTemp |-> minTemp, tempThreshold |-> tempThreshold,
     lastExhale |-> lastExhale]

Init ==
    /\ objT = 0
    /\ tempThreshold = Deg(TEMP_THRESHOLD)
    /\ minTemp = Deg(MIN_TEMP)
    /\ state = INHALE
    /\ prevState = INHALE
    /\ patient = FALSE
    /\ alarm = FALSE
    /\ thresholdSet = FALSE
    /\ minimumSet = FALSE
    /\ thresholdSetDisp = FALSE
    /\ minimumSetDisp = FALSE
    /\ sensorFail = FALSE
    /\ clock = 0
    /\ stateTime = clock
    /\ statePrevTime = stateTime
    /\ bpmTime = 0
    /\ bpmPrevTime = 0
    /\ bpm = BpmZero
    /\ exhaleCtr = 0
    /\ pinExhale = LOW
    /\ pinInhale = LOW
    /\ pinPatient = LOW
    /\ pinAlarm = LOW
    /\ serialCnt = 0
    /\ serialRec = NoRecord
    /\ crossed = FALSE
    /\ pc = "sample"
    /\ thrPresses = 0
    /\ minPresses = 0
    /\ thrAsserts = 0
    /\ minAsserts = 0
    /\ thrCaptures = 0
    /\ minCaptures = 0
    /\ thrEvents = 0
    /\ minEvents = 0
    /\ budget \in Budgets
    /\ computed = FALSE
    /\ lastExhale = -1
    /\ pre = Snapshot

(***************************************************************************)
(* The clock.  millis()/1000 moves on freely while the loop waits in its   *)
(* delays; as it is not read between the end of the detection code and the *)
(* next patient detector, all of that time is let pass before sampling.    *)
(* Between the clock reads of one pass through the detection code (lines   *)
(* 211, 240, 261, 266; well under a second) it crosses at most one         *)
(* whole-second boundary.                                                  *)
(***************************************************************************)
Tick ==
    /\ clock < budget.time
    /\ \/ pc = "sample"
       \/ pc \in {"track", "stamp"} /\ ~crossed
    /\ clock' = clock + 1
    /\ crossed' = (pc # "sample")
    /\ UNCHANGED <<progVars, pinVars, serialVars, pc, pressVars, budget,
                   calHist, histVars>>

(***************************************************************************)
(* Interrupt routines.                                                     *)
(***************************************************************************)
\* A button edge is let through by the environment's budget.
PressAllowed ==
    /\ thrPresses + minPresses < budget.presses
    /\ budget.alarmOnly => alarm

\* Mutation: the interrupt routine captures the threshold itself.
setThreshold_Captures ==
    /\ PressAllowed
    /\ thrPresses' = thrPresses + 1
    /\ tempThreshold' = Deg(ToInt(objT))
    /\ IF ~thresholdSet
         THEN /\ thresholdSet' = TRUE
              /\ thrAsserts' = thrAsserts + 1
         ELSE UNCHANGED <<thresholdSet, thrAsserts>>
    /\ UNCHANGED <<objT, minTemp, state, prevState, patient,
                   alarm, minimumSet, thresholdSetDisp, minimumSetDisp,
                   sensorFail, stateTime, statePrevTime, bpmTime, bpmPrevTime,
                   bpm, exhaleCtr>>
    /\ UNCHANGED <<pinVars, serialVars, clock, crossed, pc, budget, histVars,
                   minPresses, minAsserts, thrCaptures, minCaptures,
                   thrEvents, minEvents>>

setThreshold ==
    /\ PressAllowed
    /\ thrPresses' = thrPresses + 1
    /\ IF ~thresholdSet
         THEN /\ thresholdSet' = TRUE
              /\ thrAsserts' = thrAsserts + 1
         ELSE UNCHANGED <<thresholdSet, thrAsserts>>
    /\ UNCHANGED <<objT, tempThreshold, minTemp, state, prevState, patient,
                   alarm, minimumSet, thresholdSetDisp, minimumSetDisp,
                   sensorFail, stateTime, statePrevTime, bpmTime, bpmPrevTime,
                   bpm, exhaleCtr>>
    /\ UNCHANGED <<pinVars, serialVars, clock, crossed, pc, budget, histVars,
                   minPresses, minAsserts, thrCaptures, minCaptures,
                   thrEvents, minEvents>>

setMinimum ==
    /\ PressAllowed
    /\ minPresses' = minPresses + 1
    /\ IF ~minimumSet
         THEN /\ minimumSet' = TRUE
              /\ minAsserts' = minAsserts + 1
         ELSE UNCHANGED <<minimumSet, minAsserts>>
    /\ UNCHANGED <<objT, tempThreshold, minTemp, state, prevState, patient,
                   alarm, thresholdSet, thresholdSetDisp, minimumSetDisp,
                   sensorFail, stateTime, statePrevTime, bpmTime, bpmPrevTime,
                   bpm, exhaleCtr>>
    /\ UNCHANGED <<pinVars, serialVars, clock, crossed, pc, budget, histVars,
                   thrPresses, thrAsserts, thrCaptures, minCaptures,
                   thrEvents, minEvents>>

(***************************************************************************)
(* loop(): sampling and the sensor fault flag.                             *)
(***************************************************************************)
\* Mutation: a fault, once seen, stays.
SensorFailCheck_Latched(t) == sensorFail \/ t > Deg(SENSOR_FAIL_TEMP)

SensorFailCheck(t) == t > Deg(SENSOR_FAIL_TEMP)

Sample ==
    /\ pc = "sample"
    /\ \E rd \in Readings :
         /\ objT' = Average(rd)
         /\ sensorFail' = SensorFailCheck(Average(rd))
    /\ pc' = "presence"
    /\ UNCHANGED <<tempThreshold, minTemp, state, prevState, patient, alarm,
                   thresholdSet, minimumSet, thresholdSetDisp, minimumSetDisp,
                   stateTime, statePrevTime, bpmTime, bpmPrevTime, bpm,
                   exhaleCtr>>
    /\ UNCHANGED <<pinVars, serialVars, clock, crossed, pressVars, budget,
                   calHist, histVars>>

(***************************************************************************)
(* loop(): patient detector.                                               *)
(***************************************************************************)
LookingForPatient == (objT < (minTemp + Deg(PATIENT_HYST))) /\ ~patient

\* Mutation: the single-sided check, with no band below the threshold.
PatientLost_SingleSided == (objT < minTemp) /\ patient

PatientLost == (objT < (minTemp - Deg(PATIENT_HYST))) /\ patient

\* Mutation: the rate is left standing when the patient is gone.
NoPatient_KeepBpm ==
    /\ patient' = FALSE
    /\ alarm' = FALSE
    /\ pinExhale' = LOW
    /\ pinInhale' = LOW
    /\ pinPatient' = LOW
    /\ pinAlarm' = LOW
    /\ serialCnt' = serialCnt + 1
    /\ serialRec' = StatusRecord(FALSE, state, FALSE, bpm, objT)
    /\ pc' = "calThr"
    /\ UNCHANGED <<bpm, stateTime, statePrevTime, bpmTime, bpmPrevTime,
                   exhaleCtr, lastExhale>>

\* Mutation: the state machine also runs when no patient is present.
NoPatient_FallsThrough ==
    /\ patient' = FALSE
    /\ alarm' = FALSE
    /\ bpm' = BpmZero
    /\ pinExhale' = LOW
    /\ pinInhale' = LOW
    /\ pinPatient' = LOW
    /\ pinAlarm' = LOW
    /\ serialCnt' = serialCnt + 1
    /\ serialRec' = StatusRecord(FALSE, state, FALSE, BpmZero, objT)
    /\ pc' = "phase"
    /\ UNCHANGED <<stateTime, statePrevTime, bpmTime, bpmPrevTime, exhaleCtr,
                   lastExhale>>

\* Mutation: losing the patient leaves the exhale and inhale pins alone.
NoPatient_KeepsPhasePins ==
    /\ patient' = FALSE
    /\ alarm' = FALSE
    /\ bpm' = BpmZero
    /\ pinPatient' = LOW
    /\ pinAlarm' = LOW
    /\ serialCnt' = serialCnt + 1
    /\ serialRec' = StatusRecord(FALSE, state, FALSE, BpmZero, objT)
    /\ pc' = "calThr"
    /\ UNCHANGED <<pinExhale, pinInhale, stateTime, statePrevTime, bpmTime,
                   bpmPrevTime, exhaleCtr, lastExhale>>

NoPatient ==
    /\ patient' = FALSE
    /\ alarm' = FALSE
    /\ bpm' = BpmZero
    /\ pinExhale' = LOW
    /\ pinInhale' = LOW
    /\ pinPatient' = LOW
    /\ pinAlarm' = LOW
    /\ serialCnt' = serialCnt + 1
    /\ serialRec' = StatusRecord(FALSE, state, FALSE, BpmZero, objT)
    /\ pc' = "calThr"
    /\ UNCHANGED <<stateTime, statePrevTime, bpmTime, bpmPrevTime, exhaleCtr,
                   lastExhale>>

\* Mutation: the exhale counter of the previous patient is kept.
NewPatient_KeepCtr ==
    /\ patient' = TRUE
    /\ statePrevTime' = clock
    /\ stateTime' = clock
    /\ bpmTime' = clock
    /\ bpmPrevTime' = clock
    /\ pinPatient' = HIGH
    /\ serialCnt' = serialCnt + 1
    /\ serialRec' = StatusRecord(TRUE, state, alarm, bpm, objT)
    /\ lastExhale' = -1
    /\ UNCHANGED <<exhaleCtr, alarm, bpm, pinExhale, pinInhale, pinAlarm>>

NewPatient ==
    /\ patient' = TRUE
    /\ statePrevTime' = clock
    /\ stateTime' = clock
    /\ bpmTime' = clock
    /\ bpmPrevTime' = clock
    /\ exhaleCtr' = 0
    /\ pinPatient' = HIGH
    /\ serialCnt' = serialCnt + 1
    /\ serialRec' = StatusRecord(TRUE, state, alarm, bpm, objT)
    /\ lastExhale' = -1
    /\ UNCHANGED <<alarm, bpm, pinExhale, pinInhale, pinAlarm>>

PresenceDetector ==
    /\ pc = "presence"
    /\ IF LookingForPatient
         THEN NoPatient
         ELSE IF PatientLost
           THEN NoPatient
           ELSE /\ pc' = "phase"
                /\ IF ~patient
                     THEN NewPatient
                     ELSE UNCHANGED <<patient, alarm, bpm, stateTime,
                                      statePrevTime, bpmTime, bpmPrevTime,
                                      exhaleCtr, pinVars, serialVars,
                                      lastExhale>>
    /\ UNCHANGED <<objT, tempThreshold, minTemp, state, prevState,
                   thresholdSet, minimumSet, thresholdSetDisp, minimumSetDisp,
                   sensorFail>>
    /\ UNCHANGED <<clock, crossed, pressVars, budget, calHist, pre, computed>>

(***************************************************************************)
(* loop(): inhale/exhale state machine.                                    *)
(***************************************************************************)
\* Mutation: the hysteresis is applied twice.
ExhaleStart_WideBand ==
    ((objT - 2 * Deg(EXHALE_HYST)) > tempThreshold) /\ (state = INHALE)

ExhaleStart == ((objT - Deg(EXHALE_HYST)) > tempThreshold) /\ (state = INHALE)

\* Mutation: the inhale test uses the upper edge of the hysteresis band.
InhaleStart_UpperEdge ==
    (objT < tempThreshold + Deg(EXHALE_HYST)) /\ (state = EXHALE)

InhaleStart == (objT < tempThreshold) /\ (state = EXHALE)

PhaseMachine ==
    /\ pc = "phase"
    /\ IF ExhaleStart
         THEN /\ pinExhale' = HIGH
              /\ pinInhale' = LOW
              /\ state' = EXHALE
              /\ exhaleCtr' = (exhaleCtr + 1) % CHAR_RANGE
         ELSE IF InhaleStart
           THEN /\ pinExhale' = LOW
                /\ pinInhale' = HIGH
                /\ state' = INHALE
                /\ UNCHANGED exhaleCtr
           ELSE UNCHANGED <<pinExhale, pinInhale, state, exhaleCtr>>
    /\ pc' = "track"
    /\ UNCHANGED <<objT, tempThreshold, minTemp, prevState, patient, alarm,
                   thresholdSet, minimumSet, thresholdSetDisp, minimumSetDisp,
                   sensorFail, stateTime, statePrevTime, bpmTime, bpmPrevTime,
                   bpm>>
    /\ UNCHANGED <<pinPatient, pinAlarm, serialVars, clock, crossed, pressVars,
                   budget, calHist, histVars>>

(***************************************************************************)
(* loop(): state change bookkeeping, BPM calculation and alarm timer.      *)
(***************************************************************************)
\* Mutation: the alarm waits one second too long.
AlarmDue_Late == (clock - statePrevTime) > ALARM_DELAY_SEC + 1

AlarmDue == (clock - statePrevTime) > ALARM_DELAY_SEC

\* Mutation: the rate is computed from the first exhale start on.
BpmDue_Early == exhaleCtr >= 1

\* Mutation: the rate is computed on every third exhale start only.
BpmDue_Third == exhaleCtr >= 3

BpmDue == exhaleCtr >= 2

Track ==
    /\ pc = "track"
    /\ IF state # prevState
         THEN /\ pinAlarm' = LOW
              /\ alarm' = FALSE
              /\ IF BpmDue
                   THEN /\ bpmTime' = clock
                        /\ bpm' = BpmCalc(clock, bpmPrevTime)
                        /\ exhaleCtr' = 0
                        /\ bpmPrevTime' = clock
                        /\ computed' = TRUE
                   ELSE UNCHANGED <<bpmTime, bpm, exhaleCtr, bpmPrevTime,
                                    computed>>
              /\ pc' = "stamp"
              /\ UNCHANGED serialVars
         ELSE /\ IF AlarmDue
                   THEN /\ pinAlarm' = HIGH
                        /\ alarm' = TRUE
                   ELSE UNCHANGED <<pinAlarm, alarm>>
              /\ serialCnt' = serialCnt + 1
              /\ serialRec' = StatusRecord(patient, state, alarm', bpm, objT)
              /\ pc' = "calThr"
              /\ UNCHANGED <<bpmTime, bpm, exhaleCtr, bpmPrevTime, computed>>
    /\ UNCHANGED <<objT, tempThreshold, minTemp, state, prevState, patient,
                   thresholdSet, minimumSet, thresholdSetDisp, minimumSetDisp,
                   sensorFail, stateTime, statePrevTime>>
    /\ UNCHANGED <<pinExhale, pinInhale, pinPatient, clock, crossed, pressVars,
                   budget, calHist, pre, lastExhale>>

\* Mutation: stateTime is stamped before it is saved in statePrevTime.
Stamp_WrongOrder ==
    /\ pc = "stamp"
    /\ stateTime' = clock
    /\ statePrevTime' = clock
    /\ prevState' = state
    /\ lastExhale' = (IF state = EXHALE THEN clock ELSE lastExhale)
    /\ serialCnt' = serialCnt + 1
    /\ serialRec' = StatusRecord(patient, state, alarm, bpm, objT)
    /\ pc' = "calThr"
    /\ UNCHANGED <<objT, tempThreshold, minTemp, state, patient, alarm,
                   thresholdSet, minimumSet, thresholdSetDisp, minimumSetDisp,
                   sensorFail, bpmTime, bpmPrevTime, bpm, exhaleCtr>>
    /\ UNCHANGED <<pinVars, clock, crossed, pressVars, budget, calHist, pre,
                   computed>>

Stamp ==
    /\ pc = "stamp"
    /\ statePrevTime' = stateTime
    /\ stateTime' = clock
    /\ prevState' = state
    /\ lastExhale' = (IF state = EXHALE THEN clock ELSE lastExhale)
    /\ serialCnt' = serialCnt + 1
    /\ serialRec' = StatusRecord(patient, state, alarm, bpm, objT)
    /\ pc' = "calThr"
    /\ UNCHANGED <<objT, tempThreshold, minTemp, state, patient, alarm,
                   thresholdSet, minimumSet, thresholdSetDisp, minimumSetDisp,
                   sensorFail, bpmTime, bpmPrevTime, bpm, exhaleCtr>>
    /\ UNCHANGED <<pinVars, clock, crossed, pressVars, budget, calHist, pre,
                   computed>>

(***************************************************************************)
(* loop(): threshold capture on a button press.                            *)
(***************************************************************************)
\* Mutation: a capture of the exhale threshold also sets the patient
\* threshold.
CalThr_SetsBoth ==
    /\ pc = "calThr"
    /\ IF thresholdSet
         THEN /\ thresholdSetDisp' = TRUE
              /\ tempThreshold' = Deg(ToInt(objT))
              /\ minTemp' = Deg(ToInt(objT))
              /\ thrCaptures' = thrCaptures + 1
              /\ pc' = "calThrClr"
         ELSE /\ pc' = "calMin"
              /\ UNCHANGED <<thresholdSetDisp, tempThreshold, minTemp,
                             thrCaptures>>
    /\ UNCHANGED <<objT, state, prevState, patient, alarm,
                   thresholdSet, minimumSet, minimumSetDisp, sensorFail,
                   stateTime, statePrevTime, bpmTime, bpmPrevTime, bpm,
                   exhaleCtr>>
    /\ UNCHANGED <<pinVars, serialVars, clock, crossed, pressVars, budget,
                   histVars, thrAsserts, minAsserts, minCaptures, thrEvents,
                   minEvents>>

\* Mutation: a capture of the exhale threshold acknowledges the alarm.
CalThr_ClearsAlarm ==
    /\ pc = "calThr"
    /\ IF thresholdSet
         THEN /\ thresholdSetDisp' = TRUE
              /\ tempThreshold' = Deg(ToInt(objT))
              /\ thrCaptures' = thrCaptures + 1
              /\ alarm' = FALSE
              /\ pinAlarm' = LOW
              /\ pc' = "calThrClr"
         ELSE /\ pc' = "calMin"
              /\ UNCHANGED <<thresholdSetDisp, tempThreshold, thrCaptures,
                             alarm, pinAlarm>>
    /\ UNCHANGED <<objT, minTemp, state, prevState, patient,
                   thresholdSet, minimumSet, minimumSetDisp, sensorFail,
                   stateTime, statePrevTime, bpmTime, bpmPrevTime, bpm,
                   exhaleCtr>>
    /\ UNCHANGED <<pinExhale, pinInhale, pinPatient, serialVars, clock,
                   crossed, pressVars, budget, histVars, thrAsserts,
                   minAsserts, minCaptures, thrEvents, minEvents>>

CalThr ==
    /\ pc = "calThr"
    /\ IF thresholdSet
         THEN /\ thresholdSetDisp' = TRUE
              /\ tempThreshold' = Deg(ToInt(objT))
              /\ thrCaptures' = thrCaptures + 1
              /\ pc' = "calThrClr"
         ELSE /\ pc' = "calMin"
              /\ UNCHANGED <<thresholdSetDisp, tempThreshold, thrCaptures>>
    /\ UNCHANGED <<objT, minTemp, state, prevState, patient, alarm,
                   thresholdSet, minimumSet, minimumSetDisp, sensorFail,
                   stateTime, statePrevTime, bpmTime, bpmPrevTime, bpm,
                   exhaleCtr>>
    /\ UNCHANGED <<pinVars, serialVars, clock, crossed, pressVars, budget,
                   histVars, thrAsserts, minAsserts, minCaptures, thrEvents,
                   minEvents>>

\* Mutation: the request stays pending after its capture.
CalThrClr_Forget ==
    /\ pc = "calThrClr"
    /\ pc' = "calMin"
    /\ UNCHANGED <<progVars, pinVars, serialVars, clock, crossed, pressVars,
                   budget, calHist, histVars>>

CalThrClr ==
    /\ pc = "calThrClr"
    /\ thresholdSet' = FALSE
    /\ pc' = "calMin"
    /\ UNCHANGED <<objT, tempThreshold, minTemp, state, prevState, patient,
                   alarm, minimumSet, thresholdSetDisp, minimumSetDisp,
                   sensorFail, stateTime, statePrevTime, bpmTime, bpmPrevTime,
                   bpm, exhaleCtr>>
    /\ UNCHANGED <<pinVars, serialVars, clock, crossed, pressVars, budget,
                   calHist, histVars>>

CalMin ==
    /\ pc = "calMin"
    /\ IF minimumSet
         THEN /\ minimumSetDisp' = TRUE
              /\ minTemp' = Deg(ToInt(objT))
              /\ minCaptures' = minCaptures + 1
              /\ pc' = "calMinClr"
         ELSE /\ pc' = "display"
              /\ UNCHANGED <<minimumSetDisp, minTemp, minCaptures>>
    /\ UNCHANGED <<objT, tempThreshold, state, prevState, patient, alarm,
                   thresholdSet, minimumSet, thresholdSetDisp, sensorFail,
                   stateTime, statePrevTime, bpmTime, bpmPrevTime, bpm,
                   exhaleCtr>>
    /\ UNCHANGED <<pinVars, serialVars, clock, crossed, pressVars, budget,
                   histVars, thrAsserts, minAsserts, thrCaptures, thrEvents,
                   minEvents>>

CalMinClr ==
    /\ pc = "calMinClr"
    /\ minimumSet' = FALSE
    /\ pc' = "display"
    /\ UNCHANGED <<objT, tempThreshold, minTemp, state, prevState, patient,
                   alarm, thresholdSet, thresholdSetDisp, minimumSetDisp,
                   sensorFail, stateTime, statePrevTime, bpmTime, bpmPrevTime,
                   bpm, exhaleCtr>>
    /\ UNCHANGED <<pinVars, serialVars, clock, crossed, pressVars, budget,
                   calHist, histVars>>

(***************************************************************************)
(* loop(): updateDisplay(), then the end-of-cycle delay.                    *)
(***************************************************************************)
Display ==
    /\ pc = "display"
    /\ thresholdSetDisp' = FALSE
    /\ thrEvents' = (IF thresholdSetDisp THEN thrEvents + 1 ELSE thrEvents)
    /\ minimumSetDisp' = FALSE
    /\ minEvents' = (IF minimumSetDisp THEN minEvents + 1 ELSE minEvents)
    /\ pc' = "sample"
    /\ pre' = Snapshot
    /\ computed' = FALSE
    /\ crossed' = FALSE
    /\ serialCnt' = 0
    /\ serialRec' = NoRecord
    /\ UNCHANGED <<objT, tempThreshold, minTemp, state, prevState, patient,
                   alarm, thresholdSet, minimumSet, sensorFail, stateTime,
                   statePrevTime, bpmTime, bpmPrevTime, bpm, exhaleCtr>>
    /\ UNCHANGED <<pinVars, clock, pressVars, budget, lastExhale, thrAsserts,
                   minAsserts, thrCaptures, minCaptures>>

Next ==
    \/ Tick
    \/ setThreshold
    \/ setMinimum
    \/ Sample
    \/ PresenceDetector
    \/ PhaseMachine
    \/ Track
    \/ Stamp
    \/ CalThr
    \/ CalThrClr
    \/ CalMin
    \/ CalMinClr
    \/ Display

Spec == Init /\ [][Next]_vars

(***************************************************************************)
(* Positions of loop() used by the properties.                             *)
(***************************************************************************)
\* The patient detector of this cycle has run.
PostPresence == pc \notin {"sample", "presence"}

\* Patient detector, state machine, BPM calculation and alarm timer of this
\* cycle have all run.
PostDetect == pc \in {"calThr", "calThrClr", "calMin", "calMinClr", "display"}

\* This cycle recorded an inhale/exhale state change.
PhaseChanged == state # pre.state

PinsLow == pinExhale = LOW /\ pinInhale = LOW /\ pinPatient = LOW /\ pinAlarm = LOW

(***************************************************************************)
(* C1: between cycles, whenever alarm is true, more than ALARM_DELAY_SEC   *)
(* seconds have passed since the most recent state change (or, if there    *)
(* was none yet, since the new-patient reset), whose time stateTime holds. *)
(* The code times the alarm from statePrevTime, the change before that     *)
(* one, so this fails.                                                     *)
(***************************************************************************)
C1_AlarmOnlyAfterDelay ==
    (pc = "sample" /\ alarm) => (clock - stateTime) > ALARM_DELAY_SEC

(***************************************************************************)
(* C2: when a cycle records Inhale -> Exhale at time t2 (stateTime) and    *)
(* the previous Inhale -> Exhale of the same patient was at t1 < t2, then  *)
(* after the cycle bpm = 60 / (t2 - t1).  The code divides 120 by the time *)
(* since the last calculation (or the new-patient reset) and only on every *)
(* second exhale, so this fails.                                           *)
(***************************************************************************)
C2_BpmIsSixtyOverPeriod ==
    (/\ PostDetect
     /\ patient
     /\ PhaseChanged
     /\ state = EXHALE
     /\ pre.lastExhale >= 0
     /\ stateTime > pre.lastExhale)
    => bpm[1] * (stateTime - pre.lastExhale) = 60 * bpm[2]

(***************************************************************************)
(* C3: in a cycle that starts and ends with the patient present, if no     *)
(* state change is recorded and the clock reads more than ALARM_DELAY_SEC  *)
(* past the last state change, alarm is true after the cycle; if a state   *)
(* change is recorded, alarm is false and the alarm pin low.               *)
(***************************************************************************)
C3_AlarmRaisedThenCleared ==
    (PostDetect /\ pre.patient /\ patient)
    => /\ (~PhaseChanged /\ (clock - stateTime) > ALARM_DELAY_SEC)
            => (alarm /\ pinAlarm = HIGH)
       /\ PhaseChanged => (~alarm /\ pinAlarm = LOW)

\* An alarm raised after more than ALARM_DELAY_SEC without a state change is
\* cleared by the cycle that records the next state change.
C3_Witness ==
    /\ PostDetect
    /\ pre.patient
    /\ patient
    /\ pre.alarm
    /\ (clock - pre.stateTime) > ALARM_DELAY_SEC
    /\ PhaseChanged
    /\ ~alarm

(***************************************************************************)
(* C4: when the measurement lies in [minTemp - PATIENT_HYST,               *)
(* minTemp + PATIENT_HYST), the patient flag after the patient detector is *)
(* the one the cycle started with.                                         *)
(***************************************************************************)
InDeadZone ==
    /\ pre.minTemp - Deg(PATIENT_HYST) <= objT
    /\ objT < pre.minTemp + Deg(PATIENT_HYST)

C4_AntiChatter == (PostPresence /\ InDeadZone) => patient = pre.patient

\* A present patient measured exactly at the lower edge of the dead zone.
C4_Witness ==
    /\ PostPresence
    /\ InDeadZone
    /\ objT = pre.minTemp - Deg(PATIENT_HYST)
    /\ pre.patient
    /\ patient

(***************************************************************************)
(* C5: when the measurement is below minTemp - PATIENT_HYST, then whatever *)
(* the patient flag was, after the cycle patient is false, all four pins   *)
(* are low, alarm is false and bpm is 0.                                   *)
(***************************************************************************)
C5_AbsentClearsOutputs ==
    (PostPresence /\ objT < pre.minTemp - Deg(PATIENT_HYST))
    => /\ ~patient
       /\ PinsLow
       /\ ~alarm
       /\ bpm = BpmZero
       /\ PostDetect

\* A present patient with a rate on display and an exhale pin high is lost.
C5_Witness ==
    /\ PostDetect
    /\ objT < pre.minTemp - Deg(PATIENT_HYST)
    /\ pre.patient
    /\ pre.bpm # BpmZero
    /\ pre.pinExhale = HIGH
    /\ ~patient

(***************************************************************************)
(* C6: in a cycle that starts with patient false and measures at least     *)
(* minTemp + PATIENT_HYST, the patient detector sets patient and leaves    *)
(* exhaleCtr = 0, bpm = 0, alarm false and the four timers at the clock    *)
(* reading; patient, bpm = 0 and alarm false still hold when the cycle     *)
(* ends, where exhaleCtr is 1 if the state machine recorded an exhale      *)
(* start in the same cycle and 0 otherwise.                                *)
(***************************************************************************)
NewPatientCycle ==
    /\ PostPresence
    /\ ~pre.patient
    /\ objT >= pre.minTemp + Deg(PATIENT_HYST)

C6_NewPatientReset ==
    NewPatientCycle
    => /\ patient
       /\ pinPatient = HIGH
       /\ bpm = BpmZero
       /\ ~alarm
       /\ pc = "phase"
            => /\ exhaleCtr = 0
               /\ stateTime = clock /\ statePrevTime = clock
               /\ bpmTime = clock /\ bpmPrevTime = clock
       /\ PostDetect
            => exhaleCtr = (IF PhaseChanged /\ state = EXHALE THEN 1 ELSE 0)

\* The new patient replaces one who left with one exhale counted.
C6_Witness ==
    /\ NewPatientCycle
    /\ pc = "phase"
    /\ pre.exhaleCtr = 1
    /\ exhaleCtr = 0
    /\ patient

(***************************************************************************)
(* C7: with the patient present, state INHALE and                          *)
(* objT - EXHALE_HYST > tempThreshold, the state machine sets state to     *)
(* EXHALE and leaves exhaleCtr exactly one above the value it found (0 or  *)
(* 1; the value it finds after a new-patient reset is 0).  The state stays *)
(* EXHALE to the end of the cycle, where the BPM calculation has taken a   *)
(* counter of 2 back to 0.                                                 *)
(***************************************************************************)
PostPhase == pc \in {"track", "stamp"} \/ (PostDetect /\ patient)

CtrBeforePhase == IF pre.patient THEN pre.exhaleCtr ELSE 0

C7_ExhaleStartCounts ==
    (/\ PostPhase
     /\ pre.state = INHALE
     /\ (objT - Deg(EXHALE_HYST)) > pre.tempThreshold)
    => /\ state = EXHALE
       /\ pinExhale = HIGH
       /\ pinInhale = LOW
       /\ pc = "track" => exhaleCtr = CtrBeforePhase + 1
       /\ PostDetect
            => exhaleCtr = (IF CtrBeforePhase + 1 >= 2 THEN 0
                                                       ELSE CtrBeforePhase + 1)

\* The second exhale start of a patient: the counter goes from 1 to 2.
C7_Witness ==
    /\ pc = "track"
    /\ pre.patient
    /\ pre.state = INHALE
    /\ (objT - Deg(EXHALE_HYST)) > pre.tempThreshold
    /\ pre.exhaleCtr = 1
    /\ exhaleCtr = 2
    /\ state = EXHALE

(***************************************************************************)
(* C8: a BPM calculation whose clock reading equals bpmPrevTime sets bpm   *)
(* to 0; no bpm value is ever the result of a division by zero; and the    *)
(* calculation leaves exhaleCtr = 0 and bpmPrevTime = bpmTime as usual.    *)
(***************************************************************************)
C8_ZeroElapsedGivesZero ==
    /\ bpm[2] # 0
    /\ (computed /\ bpmTime = pre.bpmPrevTime)
         => /\ bpm = BpmZero
            /\ bpmPrevTime = bpmTime
            /\ PostDetect => exhaleCtr = 0

\* Two exhale starts within one whole second, and the cycle runs on to its
\* end.
C8_Witness ==
    /\ computed
    /\ bpmTime = pre.bpmPrevTime
    /\ pre.bpm # BpmZero
    /\ bpm = BpmZero
    /\ pc = "display"

(***************************************************************************)
(* C9: in a cycle whose measurement is above SENSOR_FAIL_TEMP, sensorFail  *)
(* is true and the cycle changes neither patient, state, exhaleCtr, bpm,   *)
(* alarm nor any of the four pins.  The code runs the patient detector,    *)
(* the state machine, the BPM calculation and the alarm timer on the       *)
(* faulty measurement all the same, so this fails.                         *)
(***************************************************************************)
C9_FaultSuppressesOutputs ==
    (PostDetect /\ objT > Deg(SENSOR_FAIL_TEMP))
    => /\ sensorFail
       /\ patient = pre.patient
       /\ state = pre.state
       /\ exhaleCtr = pre.exhaleCtr
       /\ bpm = pre.bpm
       /\ alarm = pre.alarm
       /\ pinExhale = pre.pinExhale
       /\ pinInhale = pre.pinInhale
       /\ pinPatient = pre.pinPatient
       /\ pinAlarm = pre.pinAlarm

(***************************************************************************)
(* C10: sensorFail is true exactly when the measurement of the current     *)
(* cycle is above SENSOR_FAIL_TEMP, whatever it was before: a plausible    *)
(* measurement clears the flag in the very next cycle.                     *)
(***************************************************************************)
C10_FaultNeverLatches == sensorFail <=> (objT > Deg(SENSOR_FAIL_TEMP))

\* The cycle after a faulty one measures a plausible temperature.
C10_Witness ==
    /\ pc = "presence"
    /\ pre.sensorFail
    /\ ~sensorFail
    /\ objT <= Deg(SENSOR_FAIL_TEMP)

(***************************************************************************)
(* Positions of loop() at which the change screens are requested.          *)
(***************************************************************************)
\* From the capture of the exhale threshold to updateDisplay().
ThrEventWindow == pc \in {"calThrClr", "calMin", "calMinClr", "display"}

\* From the capture of the patient threshold to updateDisplay().
MinEventWindow == pc \in {"calMinClr", "display"}

\* thr is the whole number of degrees that m becomes when its fraction is
\* dropped.
TruncatedTowardZero(thr, m) ==
    /\ thr % Deg(1) = 0
    /\ (m >= 0 => (thr <= m /\ m < thr + Deg(1)))
    /\ (m < 0 => (thr >= m /\ m > thr - Deg(1)))

(***************************************************************************)
(* C11: when loop() consumes a pending threshold request, the threshold    *)
(* becomes the averaged measurement of this cycle truncated toward zero,   *)
(* the request flag is cleared (it is set again only by a new assertion),  *)
(* and one change screen is requested for the capture: the display flag is *)
(* up from the capture to updateDisplay() of the same cycle and at no      *)
(* other time, so every capture is shown once.  The same holds for the     *)
(* patient threshold.                                                      *)
(***************************************************************************)
C11_CaptureTruncatesAndSignalsOnce ==
    /\ pc = "calThrClr" => thresholdSet /\ thresholdSetDisp
    /\ pc = "calMinClr" => minimumSet /\ minimumSetDisp
    /\ thresholdSetDisp
         => /\ ThrEventWindow
            /\ TruncatedTowardZero(tempThreshold, objT)
            /\ (pc # "calThrClr" /\ thresholdSet) => thrAsserts > thrCaptures
    /\ minimumSetDisp
         => /\ MinEventWindow
            /\ TruncatedTowardZero(minTemp, objT)
            /\ (pc # "calMinClr" /\ minimumSet) => minAsserts > minCaptures
    /\ thrCaptures = thrEvents + (IF thresholdSetDisp THEN 1 ELSE 0)
    /\ minCaptures = minEvents + (IF minimumSetDisp THEN 1 ELSE 0)

\* A request consumed at a measurement of 91.5 degrees, about to be shown.
C11_Witness ==
    /\ pc = "display"
    /\ thresholdSetDisp
    /\ ~thresholdSet
    /\ objT = Deg(91) + 1
    /\ tempThreshold = Deg(91)
    /\ thrCaptures = 1
    /\ thrEvents = 0

\* An assertion of the exhale threshold request that no capture has served.
ThrPending == thresholdSet /\ pc # "calThrClr"

\* An assertion of the patient threshold request that no capture has served.
MinPending == minimumSet /\ pc # "calMinClr"

(***************************************************************************)
(* C12: wherever the interrupts fall in loop(), the captures of a kind are *)
(* the served assertions of that kind: every run of an interrupt routine   *)
(* that sets a clear flag is followed by one capture, none is dropped and  *)
(* none is served twice, and a run that finds the flag set adds no         *)
(* capture.                                                                *)
(***************************************************************************)
C12_OneCapturePerAssertion ==
    /\ thrAsserts = thrCaptures + (IF ThrPending THEN 1 ELSE 0)
    /\ minAsserts = minCaptures + (IF MinPending THEN 1 ELSE 0)
    /\ thrAsserts <= thrPresses
    /\ minAsserts <= minPresses

\* Two presses of the exhale button, the second one before the first was
\* served, and the one capture that followed.
C12_Witness ==
    /\ pc = "sample"
    /\ thrPresses = 2
    /\ thrAsserts = 1
    /\ thrCaptures = 1
    /\ ~thresholdSet

\* Everything loop() works on except the two request flags.
loopVars ==
    <<objT, tempThreshold, minTemp, state, prevState, patient, alarm,
      thresholdSetDisp, minimumSetDisp, sensorFail, stateTime, statePrevTime,
      bpmTime, bpmPrevTime, bpm, exhaleCtr, pinVars, serialVars, pc,
      thrCaptures, minCaptures, thrEvents, minEvents>>

(***************************************************************************)
(* C13: a run of setThreshold() changes no variable of the program other   *)
(* than thresholdSet, and a run of setMinimum() none other than            *)
(* minimumSet: thresholds, measurement, patient, state, counter, timers,   *)
(* alarm, outputs and the other flag stay as they are, and no capture is   *)
(* made inside the interrupt.                                              *)
(***************************************************************************)
C13_InterruptSetsOnlyItsFlag ==
    [][ /\ thrPresses' # thrPresses
          => /\ UNCHANGED <<loopVars, minimumSet>>
             /\ thresholdSet'
        /\ minPresses' # minPresses
          => /\ UNCHANGED <<loopVars, thresholdSet>>
             /\ minimumSet' ]_vars

\* The exhale button was pressed after this cycle's check of its flag: the
\* request waits for the next cycle, the threshold is still the default.
C13_Witness ==
    /\ pc = "calMin"
    /\ thresholdSet
    /\ thrPresses = 1
    /\ thrCaptures = 0
    /\ tempThreshold = Deg(TEMP_THRESHOLD)

(***************************************************************************)
(* C14: a threshold differs from its value at the end of the previous      *)
(* cycle only if a request of its own kind was consumed in this cycle: a   *)
(* cycle without a capture of a kind leaves that threshold unchanged, and  *)
(* the capture of one kind leaves the other threshold unchanged.           *)
(***************************************************************************)
C14_ThresholdsChangeOnlyByOwnCapture ==
    /\ ~thresholdSetDisp => tempThreshold = pre.tempThreshold
    /\ ~minimumSetDisp => minTemp = pre.minTemp
    /\ pc = "calThrClr" => minTemp = pre.minTemp
    /\ (pc = "calMinClr" /\ ~thresholdSetDisp)
         => tempThreshold = pre.tempThreshold

\* The exhale threshold was captured in this cycle and has changed; the
\* patient threshold, of which nothing was requested, has not.
C14_Witness ==
    /\ pc = "display"
    /\ thresholdSetDisp
    /\ ~minimumSetDisp
    /\ ~minimumSet
    /\ tempThreshold # pre.tempThreshold
    /\ tempThreshold # minTemp
    /\ minTemp = pre.minTemp

\* What holds of a cycle in which the BPM calculation ran: the patient is
\* present, the state changed, the counter stood at 2 or more when it was
\* tested, and the calculation left the counter at 0 and both BPM timers at
\* the clock reading it took (the clock may since have moved on by the one
\* second boundary a cycle can cross).
BpmComputationCase ==
    computed
    => /\ patient
       /\ PhaseChanged
       /\ CtrBeforePhase + (IF state = EXHALE THEN 1 ELSE 0) >= 2
       /\ exhaleCtr = 0
       /\ bpmPrevTime = bpmTime
       /\ bpmTime <= clock
       /\ clock - bpmTime <= 1
       /\ (bpmTime # clock) => crossed

BpmTimersUnchanged ==
    /\ bpm = pre.bpm
    /\ bpmTime = pre.bpmTime
    /\ bpmPrevTime = pre.bpmPrevTime

(***************************************************************************)
(* C15 as stated: the BPM calculation runs only in a cycle with a state    *)
(* change of a present patient whose counter is 2 or more, it leaves the   *)
(* counter at 0 and bpmPrevTime = bpmTime = the clock reading, and every   *)
(* other cycle that ends with a patient leaves bpm, bpmTime and            *)
(* bpmPrevTime unchanged.  The cycle that finds a new patient ends with a  *)
(* patient, runs no calculation, and sets both timers to the clock         *)
(* reading, so this fails.                                                 *)
(***************************************************************************)
C15_BpmOnlyOnCountedTransition ==
    /\ BpmComputationCase
    /\ (PostDetect /\ patient /\ ~computed) => BpmTimersUnchanged

(***************************************************************************)
(* C15, amended: as above, but the cycles that leave bpm, bpmTime and      *)
(* bpmPrevTime unchanged are those that start and end with a patient and   *)
(* run no calculation; the cycle that finds a new patient leaves bpm       *)
(* unchanged and sets bpmTime = bpmPrevTime = the clock reading.           *)
(***************************************************************************)
C15_BpmOnlyOnCountedTransition_Amended ==
    /\ BpmComputationCase
    /\ (PostDetect /\ patient /\ ~computed)
         => IF pre.patient
              THEN BpmTimersUnchanged
              ELSE /\ bpm = pre.bpm
                   /\ bpmPrevTime = bpmTime
                   /\ bpmTime <= clock
                   /\ clock - bpmTime <= 1

\* The second exhale start since the last calculation, two seconds after
\* it: a rate has been computed and the counter is back at 0.
C15_Witness ==
    /\ PostDetect
    /\ computed
    /\ pre.exhaleCtr = 1
    /\ exhaleCtr = 0
    /\ bpm # BpmZero
    /\ bpmTime # pre.bpmTime

InPhaseBand ==
    /\ pre.tempThreshold <= objT
    /\ objT <= pre.tempThreshold + Deg(EXHALE_HYST)

(***************************************************************************)
(* C17: with a patient present, the state machine of a cycle takes EXHALE  *)
(* to INHALE exactly when the measurement is below the exhale threshold    *)
(* and INHALE to EXHALE exactly when the measurement less EXHALE_HYST is   *)
(* above it; for a measurement from the threshold up to the threshold plus *)
(* EXHALE_HYST, state, exhaleCtr and the inhale and exhale pins stay as    *)
(* they were.  The state after the state machine is thus a function of     *)
(* the state before and the measurement, one change at most.               *)
(***************************************************************************)
C17_PhaseHysteresis ==
    PostPhase
    => /\ pre.state = EXHALE
            => (state = INHALE <=> objT < pre.tempThreshold)
       /\ pre.state = INHALE
            => (state = EXHALE
                  <=> objT - Deg(EXHALE_HYST) > pre.tempThreshold)
       /\ InPhaseBand
            => /\ state = pre.state
               /\ exhaleCtr = CtrBeforePhase
               /\ pinExhale = pre.pinExhale
               /\ pinInhale = pre.pinInhale

\* An exhaling patient measured exactly EXHALE_HYST above the threshold, and
\* an exhale pin that stays high.
C17_Witness ==
    /\ pc = "track"
    /\ pre.patient
    /\ pre.state = EXHALE
    /\ objT = pre.tempThreshold + Deg(EXHALE_HYST)
    /\ state = EXHALE
    /\ pinExhale = HIGH
    /\ pinInhale = LOW

(***************************************************************************)
(* C18: a cycle that ends without a patient leaves state, prevState,       *)
(* exhaleCtr, stateTime, statePrevTime, bpmTime and bpmPrevTime as they    *)
(* were, wherever the measurement lies relative to the exhale threshold.   *)
(***************************************************************************)
C18_AbsentFreezesPhase ==
    (PostDetect /\ ~patient)
    => /\ state = pre.state
       /\ prevState = pre.prevState
       /\ exhaleCtr = pre.exhaleCtr
       /\ stateTime = pre.stateTime
       /\ statePrevTime = pre.statePrevTime
       /\ bpmTime = pre.bpmTime
       /\ bpmPrevTime = pre.bpmPrevTime

\* An exhaling patient is lost at a measurement below the exhale threshold:
\* the state stays EXHALE, the counter stays at 1.
C18_Witness ==
    /\ pc = "calThr"
    /\ pre.patient
    /\ ~patient
    /\ pre.state = EXHALE
    /\ state = EXHALE
    /\ pre.exhaleCtr = 1
    /\ exhaleCtr = 1
    /\ objT < pre.tempThreshold

\* stateTime as it was when this cycle's state change was recorded: the
\* value from the previous cycle, or the time of the new-patient reset,
\* which is also in bpmTime as no calculation can follow it in that cycle.
StateTimeBeforeStamp == IF pre.patient THEN pre.stateTime ELSE bpmTime

(***************************************************************************)
(* C19: after a cycle that recorded a state change, alarm is false and the *)
(* alarm pin low, statePrevTime holds what stateTime held before,          *)
(* stateTime holds the clock reading and prevState the new state; and      *)
(* prevState equals state after every cycle, with or without a change.     *)
(***************************************************************************)
C19_TransitionBookkeeping ==
    /\ (PostDetect /\ PhaseChanged)
         => /\ patient
            /\ ~alarm
            /\ pinAlarm = LOW
            /\ statePrevTime = StateTimeBeforeStamp
            /\ stateTime = clock
            /\ prevState = state
            /\ prevState # pre.prevState
    /\ (PostDetect \/ pc = "sample") => prevState = state

\* A state change recorded after an earlier one, at a later second, while
\* the alarm was on.
C19_Witness ==
    /\ pc = "calThr"
    /\ PhaseChanged
    /\ pre.alarm
    /\ pre.stateTime > pre.statePrevTime
    /\ statePrevTime = pre.stateTime
    /\ stateTime > statePrevTime
    /\ prevState = state

(***************************************************************************)
(* C20: in every cycle, the cycle that finds a new patient included,       *)
(* updateSerial() is called once, and the record it sends carries the      *)
(* values patient, state, alarm, bpm and the measurement have after the    *)
(* patient detector, state machine, BPM calculation and alarm timer of     *)
(* that cycle.  The new-patient branch sends a record of its own before    *)
(* the state machine runs, and the cycle sends a second one at its end,    *)
(* so this fails.                                                          *)
(***************************************************************************)
C20_OneRecordPerCycle ==
    PostDetect
    => /\ serialCnt = 1
       /\ serialRec = StatusRecord(patient, state, alarm, bpm, objT)

\* loop() is between two cycles or past the patient detector, state machine,
\* BPM calculation and alarm timer of the current one.
CycleEnd == PostDetect \/ pc = "sample"

(***************************************************************************)
(* C21: at the end of every cycle exhaleCtr is 0 or 1.  It is 2 only       *)
(* between the state machine and the BPM calculation of a cycle that saw   *)
(* an exhale start, and that calculation sets it back to 0; it is never    *)
(* more than 2, far from the range of a char.                              *)
(***************************************************************************)
C21_CounterStaysSmall ==
    /\ exhaleCtr \in {0, 1, 2}
    /\ CycleEnd => exhaleCtr \in {0, 1}
    /\ exhaleCtr = 2
         => /\ pc = "track"
            /\ patient
            /\ state = EXHALE
            /\ prevState = INHALE

\* The second exhale start since the last calculation, detected with an
\* exhale threshold that was captured at run time: the counter stands at 2
\* and the calculation is about to run.
C21_Witness ==
    /\ pc = "track"
    /\ exhaleCtr = 2
    /\ thrCaptures > 0
    /\ pre.tempThreshold # Deg(TEMP_THRESHOLD)

(***************************************************************************)
(* C22: at the end of every cycle the four output pins agree with the      *)
(* state: the alarm pin is high exactly when alarm is true, the patient    *)
(* pin exactly when patient is true, alarm is true only with a patient,    *)
(* the exhale pin is high only with a patient in state EXHALE, the inhale  *)
(* pin only with a patient in state INHALE, and the two are never high     *)
(* together.                                                               *)
(***************************************************************************)
C22_PinsAgreeWithState ==
    CycleEnd
    => /\ (pinAlarm = HIGH) <=> alarm
       /\ (pinPatient = HIGH) <=> patient
       /\ alarm => patient
       /\ (pinExhale = HIGH) => (patient /\ state = EXHALE)
       /\ (pinInhale = HIGH) => (patient /\ state = INHALE)
       /\ ~(pinExhale = HIGH /\ pinInhale = HIGH)

\* Between two cycles, an exhaling patient with the alarm on: alarm,
\* patient and exhale pins high, inhale pin low.
C22_Witness ==
    /\ pc = "sample"
    /\ patient
    /\ alarm
    /\ state = EXHALE
    /\ pinAlarm = HIGH
    /\ pinPatient = HIGH
    /\ pinExhale = HIGH
    /\ pinInhale = LOW

====
